---- MODULE Spec2Model ----
(***************************************************************************)
(* BasicPlottedMap (src/script.js): the grid clustering of                 *)
(* createGridClusters, the radius filter and distance sort of              *)
(* findNearbyPoints, and the haversine distance of calculateDistance; and  *)
(* the page around them: the loads of loadMapPoints, the Load Test Data    *)
(* button, the Find Nearby Points button, the markers, the status line,    *)
(* the sidebar and the timers.                                             *)
(*                                                                         *)
(* Numbers.  Coordinates are integers in units of 1/CoordScale degree      *)
(* (the fixed data set of fetchMapPoints has four decimals).  A grid size  *)
(* is in the same unit.  Distances and radii are integers in metres.       *)
(* Math.sin, Math.cos, Math.sqrt and Math.atan2 are evaluated in fixed     *)
(* point with 14 fractional bits (One is 1.0), every product kept below     *)
(* 2^31; a distance is resolved to about 0.8 km.                            *)
(* A JavaScript number that may be non-finite is a record [k, v]: k is     *)
(* "num" with the integer v, or one of "Infinity", "-Infinity", "NaN".     *)
(***************************************************************************)
EXTENDS Integers, Sequences, FiniteSets, TLC

VARIABLES
    pc,            \* a call under study: "input" or "returned"; the page: "start" or "ready"
    called,        \* the functions called so far in a run of single calls
    points,        \* createGridClusters: the argument points
    gridSize,      \* createGridClusters: the argument gridSize
    clusters,      \* createGridClusters: the returned array
    allPoints,     \* the module-level point list read by findNearbyPoints
    center,        \* findNearbyPoints: the local center
    radius,        \* findNearbyPoints: the local radius (metres)
    nearbyPoints,  \* findNearbyPoints: the filtered, sorted array
    thrown,        \* the exception the call raised, "none" when it returned
    distanceCall,  \* calculateDistance: the arguments and the returned distance
    isLeafletAvailable,   \* the global of that name
    map,                  \* the Leaflet map: its view, or undefined
    markersLayer,         \* the layer group of the point and cluster markers
    nearbyMarkersLayer,   \* the layer group of the nearby highlights
    performanceMetrics,   \* pointCount and clusterCount of the global of that name
    loadTestBtn,          \* the Load Test Data button: disabled, textContent
    now,                  \* the time in ms since the script was loaded
    timers,               \* the pending setTimeout callbacks, in scheduling order
    used,                 \* how many clicks, loads and view changes the user has made, and
                          \* how many zooming cluster clicks in a row the view comes from
    clusterCalls,         \* how often createGridClusters has been called by a load
    renders,              \* how often loadMapPoints has gone on after its fetch
    status,               \* the textContent of the status element
    sidebar               \* the sidebar: its title and the children of pointDetails

callVars == <<pc, called, points, gridSize, clusters, allPoints, center, radius,
              nearbyPoints, thrown, distanceCall>>

pageVars == <<isLeafletAvailable, map, markersLayer, nearbyMarkersLayer,
              performanceMetrics, loadTestBtn, now, timers, used, clusterCalls, renders,
              status, sidebar>>

vars == <<callVars, pageVars>>

(***************************************************************************)
(* Bounds of the model.                                                    *)
(***************************************************************************)
MaxPoints == 3

(***************************************************************************)
(* Units.                                                                  *)
(***************************************************************************)
CoordScale == 10 ^ 4

\* 1.0 in fixed point
One == 2 ^ 14

Pt(i, la, ln) == [id |-> i, lat |-> la, lng |-> ln]

RECURSIVE SeqsUpTo(_, _)
SeqsUpTo(S, n) ==
    IF n = 0 THEN {<<>>}
    ELSE LET shorter == SeqsUpTo(S, n - 1)
         IN  shorter \cup {Append(s, x) : s \in {t \in shorter : Len(t) = n - 1}, x \in S}

(***************************************************************************)
(* JavaScript numbers, division, Math.floor and number-to-string.          *)
(***************************************************************************)
Num(n) == [k |-> "num", v |-> n]

NaN == [k |-> "NaN", v |-> 0]

PosInfinity == [k |-> "Infinity", v |-> 0]

NegInfinity == [k |-> "-Infinity", v |-> 0]

\* floor of the quotient a / b of two integers, b # 0
FloorQuot(a, b) == IF b > 0 THEN a \div b ELSE (0 - a) \div (0 - b)

\* toward-zero quotient, what Math.trunc or (x | 0) would give
TruncQuot(a, b) ==
    LET q == FloorQuot(a, b)
    IN  IF q < 0 /\ q * b # a THEN q + 1 ELSE q

\* Math.trunc in place of Math.floor
MathTruncDiv(a, b) ==
    IF b # 0 THEN Num(TruncQuot(a, b))
    ELSE IF a > 0 THEN PosInfinity
    ELSE IF a < 0 THEN NegInfinity
    ELSE NaN

\* Math.floor(a / b): a / 0 is Infinity, -Infinity or NaN, which floor keeps
MathFloorDiv(a, b) ==
    IF b # 0 THEN Num(FloorQuot(a, b))
    ELSE IF a > 0 THEN PosInfinity
    ELSE IF a < 0 THEN NegInfinity
    ELSE NaN

\* `${x}` of a number
NumToString(x) == IF x.k = "num" THEN ToString(x.v) ELSE x.k

(***************************************************************************)
(* createGridClusters (src/script.js 755-770).  The Map is a sequence of   *)
(* entries in insertion order, which is the order Map.values() iterates.   *)
(***************************************************************************)
\* a key that leaves the longitude cell out
GridKeyLatOnly(gridX, gridY) == NumToString(gridX) \o ","

GridKey(gridX, gridY) == NumToString(gridX) \o "," \o NumToString(gridY)

MapHas(m, key) == \E i \in 1..Len(m) : m[i].key = key

MapSet(m, key, value) ==
    IF MapHas(m, key)
    THEN [i \in 1..Len(m) |-> IF m[i].key = key THEN [key |-> key, value |-> value] ELSE m[i]]
    ELSE Append(m, [key |-> key, value |-> value])

\* unshift in place of push
ArrayUnshift(arr, x) == <<x>> \o arr

ArrayPush(arr, x) == Append(arr, x)

\* the place of the entry of a key in the Map
MapIndex(m, key) == CHOOSE i \in 1..Len(m) : m[i].key = key

\* the member list replaced instead of extended
OverwriteCluster(m, key, point) ==
    [m EXCEPT ![MapIndex(m, key)].value.points = <<point>>]

\* clusters.get(gridKey).points.push(point): the entry is mutated in place
PushToCluster(m, key, point) ==
    [m EXCEPT ![MapIndex(m, key)].value.points = ArrayPush(@, point)]

\* the body of points.forEach for one point
ClusterStep(m, point, gSize) ==
    LET gridX == MathFloorDiv(point.lat, gSize)
        gridY == MathFloorDiv(point.lng, gSize)
        gridKey == GridKey(gridX, gridY)
        m1 == IF ~MapHas(m, gridKey)
              THEN MapSet(m, gridKey, [points |-> <<>>, gridX |-> gridX, gridY |-> gridY])
              ELSE m
    IN  PushToCluster(m1, gridKey, point)

\* the iterations lo..hi of points.forEach, in order.  The range is halved and
\* the Map left by the first half is evaluated (its size taken) before the
\* second half starts, as a loop does; TLC would otherwise nest the
\* evaluation of a thousand iterations.
RECURSIVE ClusterFoldRange(_, _, _, _, _)
ClusterFoldRange(m, pts, lo, hi, gSize) ==
    IF lo > hi THEN m
    ELSE IF lo = hi THEN ClusterStep(m, pts[lo], gSize)
    ELSE LET mid == (lo + hi) \div 2
             firstHalf == ClusterFoldRange(m, pts, lo, mid, gSize)
         IN  IF Len(firstHalf) >= 0
             THEN ClusterFoldRange(firstHalf, pts, mid + 1, hi, gSize)
             ELSE firstHalf

ClusterFold(m, pts, i, gSize) == ClusterFoldRange(m, pts, i, Len(pts), gSize)

\* the values in reverse insertion order
MapValuesReversed(m) == [i \in 1..Len(m) |-> m[Len(m) + 1 - i].value]

\* Array.from(clusters.values())
MapValues(m) == [i \in 1..Len(m) |-> m[i].value]

createGridClusters(pts, gSize) == MapValues(ClusterFold(<<>>, pts, 1, gSize))

\* the argument array emptied as it is read (shift in place of forEach)
PointsConsumed(pts, gSize) == <<>>

\* the argument array after the call: forEach reads it, push extends the new
\* member arrays, nothing writes to it or to a point
PointsAfterClustering(pts, gSize) == pts

(***************************************************************************)
(* Fixed-point arithmetic for calculateDistance.  All arguments are >= 0.  *)
(***************************************************************************)
\* a * b in fixed point, rounded to nearest
FMul(a, b) == (a * b + One \div 2) \div One

\* a * b / c rounded to nearest, without forming a * b (needs b * c < 2^31)
MulDiv(a, b, c) == (a \div c) * b + ((a % c) * b + c \div 2) \div c

Abs(x) == IF x < 0 THEN 0 - x ELSE x

\* Math.PI in fixed point
PiFixed == 51472

HalfPiFixed == PiFixed \div 2

\* d * Math.PI / 180 for d in coordinate units: pi/180 * One / CoordScale = 1495/52281
ToRadians(d) == MulDiv(d, 1495, 52281)

\* (d * Math.PI / 180) / 2
ToHalfRadians(d) == MulDiv(d, 1495, 104562)

\* Math.sin(x) for 0 <= x <= pi/2: Taylor series to x^9
SinQuarter(x) ==
    LET x2 == FMul(x, x)
        t4 == One - x2 \div 72
        t3 == One - FMul(x2, t4) \div 42
        t2 == One - FMul(x2, t3) \div 20
        t1 == One - FMul(x2, t2) \div 6
    IN  FMul(x, t1)

\* |Math.sin(x)| for 0 <= x <= pi, by sin(pi - x) = sin(x)
MathSinAbs(x) ==
    LET y == IF x > HalfPiFixed THEN PiFixed - x ELSE x
    IN  SinQuarter(IF y < 0 THEN 0 ELSE y)

\* Math.cos(x) for 0 <= x <= pi/2: Taylor series to x^10
MathCos(x) ==
    LET x2 == FMul(x, x)
        t5 == One - x2 \div 90
        t4 == One - FMul(x2, t5) \div 56
        t3 == One - FMul(x2, t4) \div 30
        t2 == One - FMul(x2, t3) \div 12
    IN  One - FMul(x2, t2) \div 2

\* largest r in lo..hi with r * r <= n
RECURSIVE SqrtSearch(_, _, _)
SqrtSearch(n, lo, hi) ==
    IF lo >= hi THEN lo
    ELSE LET mid == (lo + hi + 1) \div 2
         IN  IF mid * mid <= n THEN SqrtSearch(n, mid, hi) ELSE SqrtSearch(n, lo, mid - 1)

\* Math.sqrt of n / One^2 in fixed point, rounded to nearest (0 <= n <= One^2)
MathSqrt(n) ==
    LET r == SqrtSearch(n, 0, One)
    IN  IF n - r * r > r THEN r + 1 ELSE r

\* atan(t) for 0 <= t <= tan(pi/8): Taylor series to t^11
AtanSmall(t) ==
    LET t2 == FMul(t, t)
        u5 == One \div 11
        u4 == One \div 9 - FMul(t2, u5)
        u3 == One \div 7 - FMul(t2, u4)
        u2 == One \div 5 - FMul(t2, u3)
        u1 == One \div 3 - FMul(t2, u2)
    IN  FMul(t, One - FMul(t2, u1))

\* atan(t) for 0 <= t <= 1: above tan(pi/8), atan(t) = pi/4 - atan((1 - t)/(1 + t))
AtanUnit(t) ==
    IF t * 1000 > 414 * One
    THEN PiFixed \div 4 - AtanSmall(((One - t) * One) \div (One + t))
    ELSE AtanSmall(t)

\* Math.atan2(y, x) for y >= 0, x >= 0
MathAtan2(y, x) ==
    IF y = 0 THEN 0
    ELSE IF x = 0 THEN HalfPiFixed
    ELSE IF y <= x THEN AtanUnit((y * One) \div x)
    ELSE HalfPiFixed - AtanUnit((x * One) \div y)

(***************************************************************************)
(* calculateDistance (src/script.js 1129-1139): haversine distance, here   *)
(* in metres.  sin is odd and cos is even, so sin(dLat/2)^2 and cos(lat)   *)
(* are computed from the absolute values.                                  *)
(***************************************************************************)
\* Radius of the Earth in km
R == 6371

\* the cosine of the first latitude taken for both points
calculateDistanceFirstLatitudeTwice(lat1, lon1, lat2, lon2) ==
    LET sLat == MathSinAbs(ToHalfRadians(Abs(lat2 - lat1)))
        sLon == MathSinAbs(ToHalfRadians(Abs(lon2 - lon1)))
        c1 == MathCos(ToRadians(Abs(lat1)))
        a0 == sLat * sLat + FMul(FMul(c1, c1), sLon) * sLon
        a == IF a0 > One * One THEN One * One ELSE a0
        halfC == MathAtan2(MathSqrt(a), MathSqrt(One * One - a))
    IN  MulDiv(halfC, R * 125, 1024)

calculateDistance(lat1, lon1, lat2, lon2) ==
    LET sLat == MathSinAbs(ToHalfRadians(Abs(lat2 - lat1)))
        sLon == MathSinAbs(ToHalfRadians(Abs(lon2 - lon1)))
        c1 == MathCos(ToRadians(Abs(lat1)))
        c2 == MathCos(ToRadians(Abs(lat2)))
        a0 == sLat * sLat + FMul(FMul(c1, c2), sLon) * sLon
        a == IF a0 > One * One THEN One * One ELSE a0
        halfC == MathAtan2(MathSqrt(a), MathSqrt(One * One - a))
    IN  MulDiv(halfC, R * 125, 1024)

(***************************************************************************)
(* findNearbyPoints (src/script.js 1001-1014): the filter and the sort.    *)
(* Array.prototype.sort is stable (ECMAScript 2019): an element goes after *)
(* every element it does not compare less than.                            *)
(***************************************************************************)
DistanceFrom(c, point) == calculateDistance(c.lat, c.lng, point.lat, point.lng)

\* an exclusive boundary
StrictlyWithinRadius(c, r, point) == DistanceFrom(c, point) < r

\* the callback of allPoints.filter
WithinRadius(c, r, point) == DistanceFrom(c, point) <= r

\* a filter whose callback always answers true
ArrayFilterKeepAll(arr, c, r) == arr

ArrayFilter(arr, c, r) == SelectSeq(arr, LAMBDA point : WithinRadius(c, r, point))

\* the comparator with its operands exchanged
CompareByDistanceDescending(c, a, b) == DistanceFrom(c, b) - DistanceFrom(c, a)

\* the comparator of nearbyPoints.sort
CompareByDistance(c, a, b) == DistanceFrom(c, a) - DistanceFrom(c, b)

\* x goes before the first element that does not compare less than x
RECURSIVE InsertBeforeEqual(_, _, _, _)
InsertBeforeEqual(sorted, x, c, i) ==
    IF i > Len(sorted) THEN Append(sorted, x)
    ELSE IF CompareByDistance(c, sorted[i], x) >= 0
         THEN SubSeq(sorted, 1, i - 1) \o <<x>> \o SubSeq(sorted, i, Len(sorted))
         ELSE InsertBeforeEqual(sorted, x, c, i + 1)

\* x goes before the first element that compares greater than x
RECURSIVE InsertSorted(_, _, _, _)
InsertSorted(sorted, x, c, i) ==
    IF i > Len(sorted) THEN Append(sorted, x)
    ELSE IF CompareByDistance(c, sorted[i], x) > 0
         THEN SubSeq(sorted, 1, i - 1) \o <<x>> \o SubSeq(sorted, i, Len(sorted))
         ELSE InsertSorted(sorted, x, c, i + 1)

RECURSIVE SortFold(_, _, _, _)
SortFold(sorted, arr, i, c) ==
    IF i > Len(arr) THEN sorted
    ELSE SortFold(InsertSorted(sorted, arr[i], c, 1), arr, i + 1, c)

ArraySort(arr, c) == SortFold(<<>>, arr, 1, c)

\* the filter without the sort
FilterOnly(pts, c, r) == ArrayFilter(pts, c, r)

NearbySearch(pts, c, r) == ArraySort(ArrayFilter(pts, c, r), c)

\* allPoints sorted in place (sort applied to allPoints, not to the filter's array)
AllPointsSortedInPlace(pts, c, r) == ArraySort(pts, c)

\* allPoints after the filter and the sort: filter returns a new array and
\* sort works in place on that array, so allPoints is not written
AllPointsAfterSearch(pts, c, r) == pts

(***************************************************************************)
(* Inputs of the two calls.                                                *)
(***************************************************************************)
\* 0.5 degree grid, the size loadPointsWithClustering passes
HalfDegree == CoordScale \div 2

ClusterUniverse ==
    { Pt(1, 1000, 2000),      \* cell (0, 0) of the 0.5 degree grid
      Pt(2, 4000, 1000),      \* cell (0, 0)
      Pt(3, 5000, 1000),      \* on the edge: cell (1, 0)
      Pt(4, -1000, 2000),     \* cell (-1, 0)
      Pt(5, 1000, -7000),     \* cell (0, -2)
      Pt(6, 0, 0) }           \* the origin

GridSizes == {0 - HalfDegree, 0, HalfDegree \div 2, HalfDegree, 2 * HalfDegree}

Origin == [lat |-> 0, lng |-> 0]

\* the demo center of the fallback mode
Melbourne == [lat |-> -378136, lng |-> 1449631]

Centers == {Origin, Melbourne}

NearbyUniverse ==
    { Pt(1, 10000, 0),            \* one degree north of the origin
      Pt(2, -10000, 0),           \* one degree south: as far as point 1
      Pt(3, 0, 10000),            \* one degree east on the equator: as far again
      Pt(4, 20000, 0),            \* two degrees north
      Pt(5, 0, 0),                \* the origin itself
      Pt(19, -378197, 1449934) }  \* Richmond

OneDegree == DistanceFrom(Origin, Pt(1, 10000, 0))

Radii == {-5000, 0, OneDegree - 1, OneDegree, 2 * OneDegree + 30000}

\* let map; let markersLayer; let nearbyMarkersLayer: undefined
Undefined == [defined |-> FALSE]

NoDistanceCall == [lat1 |-> 0, lon1 |-> 0, lat2 |-> 0, lon2 |-> 0, distance |-> 0]

\* a status text, the number it interpolates and, of a test load, its total time
Message(text, n) == [text |-> text, n |-> n, total |-> 0]

\* statusElement.textContent = ''
NoMessage == Message("", 0)

\* a child of the pointDetails element: a paragraph with its text
Paragraph(text) == [class |-> "p", text |-> text]

\* the content of pointDetails that the timer of displayNearbyPointsDetails restores
DefaultDetails == <<Paragraph("Click on a point to view details")>>

\* the heading of the sidebar: 'Point Details'
PlainTitle == [text |-> "Point Details", count |-> 0]

\* the globals as the script leaves them (src/script.js 6-10, 123-130) and the
\* page as it is loaded
InitPage ==
    /\ isLeafletAvailable = FALSE
    /\ map = Undefined
    /\ markersLayer = Undefined
    /\ nearbyMarkersLayer = Undefined
    /\ performanceMetrics = [pointCount |-> 0, clusterCount |-> 0]
    /\ loadTestBtn = [disabled |-> FALSE, textContent |-> "Load Test Data"]
    /\ now = 0
    /\ timers = <<>>
    /\ used = [clicks |-> 0, loads |-> 0, views |-> 0, zoomIns |-> 0]
    /\ clusterCalls = 0
    /\ renders = 0
    /\ status = NoMessage
    /\ sidebar = [title |-> PlainTitle, children |-> DefaultDetails]

InitCommon ==
    /\ pc = "input"
    /\ called = {}
    /\ clusters = <<>>
    /\ nearbyPoints = <<>>
    /\ thrown = "none"
    /\ distanceCall = NoDistanceCall
    /\ InitPage

(***************************************************************************)
(* SpecCluster: one call createGridClusters(points, gridSize).             *)
(***************************************************************************)
InitCluster ==
    /\ InitCommon
    /\ points \in SeqsUpTo(ClusterUniverse, MaxPoints)
    /\ gridSize \in GridSizes
    /\ allPoints = <<>>
    /\ center = Origin
    /\ radius = 0

CallCreateGridClusters ==
    /\ "createGridClusters" \notin called
    /\ called' = called \cup {"createGridClusters"}
    /\ clusters' = createGridClusters(points, gridSize)
    /\ points' = PointsAfterClustering(points, gridSize)
    /\ thrown' = "none"
    /\ pc' = "returned"
    /\ UNCHANGED <<gridSize, allPoints, center, radius, nearbyPoints, distanceCall>>
    /\ UNCHANGED pageVars

NextCluster == CallCreateGridClusters

SpecCluster == InitCluster /\ [][NextCluster]_vars

(***************************************************************************)
(* SpecNearby: one run of the filter and sort of findNearbyPoints over     *)
(* allPoints, for a center and a radius.                                   *)
(***************************************************************************)
InitNearby ==
    /\ InitCommon
    /\ allPoints \in SeqsUpTo(NearbyUniverse, MaxPoints)
    /\ center \in Centers
    /\ radius \in Radii
    /\ points = <<>>
    /\ gridSize = HalfDegree

CallFindNearby ==
    /\ "findNearbyPoints" \notin called
    /\ called' = called \cup {"findNearbyPoints"}
    /\ nearbyPoints' = NearbySearch(allPoints, center, radius)
    /\ allPoints' = AllPointsAfterSearch(allPoints, center, radius)
    /\ thrown' = "none"
    /\ pc' = "returned"
    /\ UNCHANGED <<points, gridSize, clusters, center, radius, distanceCall>>
    /\ UNCHANGED pageVars

NextNearby == CallFindNearby

SpecNearby == InitNearby /\ [][NextNearby]_vars

(***************************************************************************)
(* Vocabulary of the properties.                                           *)
(***************************************************************************)
Returned == pc = "returned"

Count(seq, x) == Cardinality({i \in 1..Len(seq) : seq[i] = x})

RECURSIVE ConcatMembers(_, _)
ConcatMembers(cs, i) ==
    IF i > Len(cs) THEN <<>> ELSE cs[i].points \o ConcatMembers(cs, i + 1)

\* the cells the inputs can fall in
CellRange == -4 .. 4

\* point lies in the cell <<nx, ny>> of the grid of size s > 0
InCell(point, cell, s) ==
    /\ cell[1] * s <= point.lat /\ point.lat < (cell[1] + 1) * s
    /\ cell[2] * s <= point.lng /\ point.lng < (cell[2] + 1) * s

CellOf(point, s) == CHOOSE cell \in CellRange \X CellRange : InCell(point, cell, s)

FirstIndexInCell(pts, cell, s) ==
    CHOOSE k \in 1..Len(pts) :
        /\ CellOf(pts[k], s) = cell
        /\ \A h \in 1..(k - 1) : CellOf(pts[h], s) # cell

(***************************************************************************)
(* C1: for a cell size > 0 the clusters returned by createGridClusters     *)
(* partition the input: the concatenation of the member lists has every    *)
(* point exactly as often as the input has it.                             *)
(***************************************************************************)
PartitionTotal ==
    (Returned /\ gridSize > 0) =>
        /\ Len(ConcatMembers(clusters, 1)) = Len(points)
        /\ \A x \in ClusterUniverse :
              Count(ConcatMembers(clusters, 1), x) = Count(points, x)

PartitionTotalWitness ==
    /\ Returned /\ gridSize > 0
    /\ Len(points) >= 3
    /\ Len(clusters) >= 2
    /\ \E i \in 1..Len(clusters) : Len(clusters[i].points) >= 2

(***************************************************************************)
(* C2: for a cell size > 0 two members are in the same cluster exactly     *)
(* when they lie in the same grid cell (floor(lat / s), floor(lng / s)),   *)
(* and the gridX, gridY of a cluster is the cell of each of its members.   *)
(***************************************************************************)
SameClusterIffSameCell ==
    (Returned /\ gridSize > 0) =>
        /\ \A i \in 1..Len(clusters) : \A k \in 1..Len(clusters[i].points) :
              /\ clusters[i].gridX.k = "num" /\ clusters[i].gridY.k = "num"
              /\ InCell(clusters[i].points[k],
                        <<clusters[i].gridX.v, clusters[i].gridY.v>>, gridSize)
        /\ \A i, j \in 1..Len(clusters) :
              \A k \in 1..Len(clusters[i].points), l \in 1..Len(clusters[j].points) :
                  (i = j) <=> (CellOf(clusters[i].points[k], gridSize)
                                 = CellOf(clusters[j].points[l], gridSize))

SameClusterIffSameCellWitness ==
    /\ Returned /\ gridSize = HalfDegree
    /\ \E i, j \in 1..Len(clusters) :
          /\ i # j
          /\ Len(clusters[i].points) >= 2
          /\ clusters[i].points[1] # clusters[i].points[2]
          /\ clusters[j].gridX.v < 0

(***************************************************************************)
(* C3: for a cell size > 0 createGridClusters returns one cluster per      *)
(* non-empty cell: as many clusters as the input points have distinct      *)
(* cells, none of them without a member.                                   *)
(***************************************************************************)
OneClusterPerCell ==
    (Returned /\ gridSize > 0) =>
        /\ Len(clusters)
             = Cardinality({CellOf(points[k], gridSize) : k \in 1..Len(points)})
        /\ \A i \in 1..Len(clusters) : Len(clusters[i].points) >= 1

OneClusterPerCellWitness ==
    /\ Returned /\ gridSize > 0
    /\ Len(clusters) = 2
    /\ Len(points) = 3
    /\ \E i, j \in 1..Len(clusters) :
          clusters[i].gridX = clusters[j].gridX /\ clusters[i].gridY # clusters[j].gridY

(***************************************************************************)
(* C4: for a cell size > 0 the members of every cluster are in input       *)
(* order: the member list is the input restricted to the cluster's cell.   *)
(***************************************************************************)
MembersInInputOrder ==
    (Returned /\ gridSize > 0) =>
        \A i \in 1..Len(clusters) :
            /\ clusters[i].points # <<>>
            /\ clusters[i].points
                 = SelectSeq(points,
                       LAMBDA p : CellOf(p, gridSize)
                                    = CellOf(clusters[i].points[1], gridSize))

MembersInInputOrderWitness ==
    /\ Returned /\ gridSize > 0
    /\ \E i \in 1..Len(clusters) :
          /\ Len(clusters[i].points) >= 2
          /\ clusters[i].points[1].id > clusters[i].points[2].id
    /\ Len(clusters) >= 2
    /\ Len(points) >= 3
    /\ CellOf(points[1], gridSize) = CellOf(points[3], gridSize)
    /\ CellOf(points[1], gridSize) # CellOf(points[2], gridSize)

(***************************************************************************)
(* C5: for a cell size > 0 the clusters are returned in the order in which *)
(* their cells first appear in the input: a cluster precedes another       *)
(* exactly when its first member precedes the other's in the input.        *)
(***************************************************************************)
ClustersInFirstAppearanceOrder ==
    (Returned /\ gridSize > 0) =>
        \A i, j \in 1..Len(clusters) :
            (clusters[i].points # <<>> /\ clusters[j].points # <<>>) =>
                ((i < j) <=>
                   (FirstIndexInCell(points, CellOf(clusters[i].points[1], gridSize), gridSize)
                      < FirstIndexInCell(points, CellOf(clusters[j].points[1], gridSize), gridSize)))

ClustersInFirstAppearanceOrderWitness ==
    /\ Returned /\ gridSize > 0
    /\ Len(clusters) = 3
    /\ clusters[1].gridX.v > clusters[2].gridX.v
    /\ clusters[3].gridY.v < clusters[2].gridY.v

(***************************************************************************)
(* C6: a call of createGridClusters with a cell size of 0 or less fails    *)
(* with an InvalidArgument error and produces no clusters.                 *)
(***************************************************************************)
NonPositiveCellSizeRejected ==
    (Returned /\ gridSize <= 0) => (thrown = "InvalidArgument" /\ clusters = <<>>)

RetainsExactlyWithinRadius ==
    Returned =>
        \A x \in NearbyUniverse :
            Count(nearbyPoints, x)
              = IF DistanceFrom(center, x) <= radius THEN Count(allPoints, x) ELSE 0

RetainsExactlyWithinRadiusWitness ==
    /\ Returned
    /\ \E i \in 1..Len(nearbyPoints) : DistanceFrom(center, nearbyPoints[i]) = radius
    /\ \E i \in 1..Len(nearbyPoints) : DistanceFrom(center, nearbyPoints[i]) < radius
    /\ \E i \in 1..Len(allPoints) : DistanceFrom(center, allPoints[i]) > radius

(***************************************************************************)
(* C9: the result of the nearby-point query is non-decreasing in distance  *)
(* from the center: of two adjacent results the earlier is no farther.     *)
(***************************************************************************)
ResultNonDecreasing ==
    Returned =>
        \A i \in 1..(Len(nearbyPoints) - 1) :
            DistanceFrom(center, nearbyPoints[i]) <= DistanceFrom(center, nearbyPoints[i + 1])

ResultNonDecreasingWitness ==
    /\ Returned
    /\ Len(nearbyPoints) = 3
    /\ nearbyPoints # allPoints
    /\ DistanceFrom(center, nearbyPoints[1]) < DistanceFrom(center, nearbyPoints[2])
    /\ DistanceFrom(center, nearbyPoints[2]) < DistanceFrom(center, nearbyPoints[3])

(***************************************************************************)
(* C10: retained points at equal distance from the center keep the         *)
(* relative order they have in allPoints: for every distance, the results  *)
(* at that distance are the points of allPoints at that distance, in the   *)
(* order of allPoints.                                                     *)
(***************************************************************************)
TiesKeepInputOrder ==
    Returned =>
        \A k \in 1..Len(nearbyPoints) :
            LET d == DistanceFrom(center, nearbyPoints[k])
            IN  SelectSeq(nearbyPoints, LAMBDA p : DistanceFrom(center, p) = d)
                  = SelectSeq(allPoints, LAMBDA p : DistanceFrom(center, p) = d)

TiesKeepInputOrderWitness ==
    /\ Returned
    /\ Len(nearbyPoints) = 3
    /\ DistanceFrom(center, nearbyPoints[1]) < DistanceFrom(center, nearbyPoints[2])
    /\ DistanceFrom(center, nearbyPoints[2]) = DistanceFrom(center, nearbyPoints[3])
    /\ nearbyPoints[2].id > nearbyPoints[3].id
    /\ nearbyPoints # allPoints

(***************************************************************************)
(* fetchMapPoints (src/script.js 225-387): the array returned when no test *)
(* data is asked for.                                                      *)
(***************************************************************************)
MockMapPoints ==
    << 
       Pt(1, 407128, -740060),      \* New York City
       Pt(2, 515074, -1278),        \* London
       Pt(3, 356762, 1396503),      \* Tokyo
       Pt(4, -338688, 1512093),     \* Sydney
       Pt(5, 488566, 23522),        \* Paris
       Pt(6, 300444, 312357),       \* Cairo
       Pt(7, 190760, 728777),       \* Mumbai
       Pt(8, -235505, -466333),     \* Sao Paulo
       Pt(9, -339249, 184241),      \* Cape Town
       Pt(10, 492827, -1231207),    \* Vancouver
       Pt(11, -378136, 1449631),    \* Melbourne
       Pt(12, -381499, 1443617),    \* Geelong
       Pt(13, -375622, 1438503),    \* Ballarat
       Pt(14, -367570, 1442794),    \* Bendigo
       Pt(15, -382176, 1450391),    \* Mornington
       Pt(16, -378339, 1453464),    \* Dandenong Ranges
       Pt(17, -381342, 1451231),    \* Frankston
       Pt(18, -378677, 1449811),    \* St Kilda
       Pt(19, -378197, 1449934),    \* Richmond
       Pt(20, -377993, 1449005)     \* Footscray
    >>

PointCoordinates(point) == [lat |-> point.lat, lng |-> point.lng]

Km(n) == n * 1000

(***************************************************************************)
(* SpecScenario: one run of the filter and sort of findNearbyPoints over   *)
(* the array of fetchMapPoints, centred on one of its points.              *)
(***************************************************************************)
ScenarioRadii == {Km(50), Km(100), Km(200), Km(1000), Km(2000)}

InitScenario ==
    /\ InitCommon
    /\ allPoints = MockMapPoints
    /\ center \in {PointCoordinates(MockMapPoints[i]) : i \in 1..Len(MockMapPoints)}
    /\ radius \in ScenarioRadii
    /\ points = <<>>
    /\ gridSize = HalfDegree

NextScenario == CallFindNearby

SpecScenario == InitScenario /\ [][NextScenario]_vars

MelbourneWithin200Km ==
    /\ Returned
    /\ allPoints = MockMapPoints
    /\ center = Melbourne
    /\ radius = Km(200)

ResultIds == {nearbyPoints[i].id : i \in 1..Len(nearbyPoints)}

(***************************************************************************)
(* C11 as the spec states it: over the 20 points of fetchMapPoints, with   *)
(* the center Melbourne and a radius of 200 km, the query returns exactly  *)
(* 9 points, none of the 10 global cities, in ascending distance, St       *)
(* Kilda, Richmond and Footscray the nearest and Bendigo the farthest.     *)
(***************************************************************************)
ScenarioReturnsNine ==
    MelbourneWithin200Km =>
        /\ Len(nearbyPoints) = 9
        /\ ResultIds \subseteq 11..20
        /\ {nearbyPoints[i].id : i \in 1..3} = {18, 19, 20}
        /\ nearbyPoints[Len(nearbyPoints)].id = 14
        /\ \A i \in 1..(Len(nearbyPoints) - 1) :
              DistanceFrom(center, nearbyPoints[i]) <= DistanceFrom(center, nearbyPoints[i + 1])

(***************************************************************************)
(* C11 amended: the query returns exactly the 10 points of the Melbourne   *)
(* area, Melbourne itself included at distance 0 and first, none of the 10 *)
(* global cities, in ascending distance, St Kilda, Richmond and Footscray  *)
(* the nearest after Melbourne and Bendigo the farthest.                   *)
(***************************************************************************)
ScenarioReturnsTen ==
    MelbourneWithin200Km =>
        /\ Len(nearbyPoints) = 10
        /\ ResultIds = 11..20
        /\ nearbyPoints[1].id = 11
        /\ DistanceFrom(center, nearbyPoints[1]) = 0
        /\ {nearbyPoints[i].id : i \in 2..4} = {18, 19, 20}
        /\ nearbyPoints[10].id = 14
        /\ \A i \in 1..9 :
              DistanceFrom(center, nearbyPoints[i]) <= DistanceFrom(center, nearbyPoints[i + 1])

ScenarioReturnsTenWitness ==
    /\ MelbourneWithin200Km
    /\ Len(nearbyPoints) = 10
    /\ nearbyPoints # SubSeq(allPoints, 11, 20)

(***************************************************************************)
(* SpecCore: the two core operations, each called once, in either order,   *)
(* on one collection, as loadMapPoints hands the array it stores in        *)
(* allPoints to the clustering.                                            *)
(***************************************************************************)
CoreGridSizes == {0, HalfDegree}

CoreRadii == {0, OneDegree, 2 * OneDegree + 30000}

InitCore ==
    /\ InitCommon
    /\ allPoints \in SeqsUpTo(NearbyUniverse, MaxPoints)
    /\ points = allPoints
    /\ gridSize \in CoreGridSizes
    /\ center \in Centers
    /\ radius \in CoreRadii

NextCore == CallCreateGridClusters \/ CallFindNearby

SpecCore == InitCore /\ [][NextCore]_vars

NoPointWithinRadius == \A i \in 1..Len(allPoints) : DistanceFrom(center, allPoints[i]) > radius

(***************************************************************************)
(* C12: an empty point collection gives an empty result and no error:      *)
(* createGridClusters of the empty array returns the empty array whatever  *)
(* the cell size, and the nearby search over an empty collection, or over  *)
(* one with no point within the radius, returns the empty array; nothing   *)
(* is thrown.                                                              *)
(***************************************************************************)
EmptyInputEmptyResult ==
    /\ ("createGridClusters" \in called /\ points = <<>>) =>
          (clusters = <<>> /\ thrown = "none")
    /\ ("findNearbyPoints" \in called /\ NoPointWithinRadius) =>
          (nearbyPoints = <<>> /\ thrown = "none")

EmptyInputEmptyResultWitness ==
    /\ called = {"createGridClusters", "findNearbyPoints"}
    /\ \/ points = <<>> /\ gridSize = 0 /\ clusters = <<>>
       \/ allPoints # <<>> /\ NoPointWithinRadius /\ nearbyPoints = <<>>

Latitudes == {-900000, -378136, 0, 407128, 515074, 900000}

Longitudes == {-1800000, -740060, 0, 1449631, 1800000}

InitDistance ==
    /\ pc = "input" /\ called = {} /\ clusters = <<>> /\ nearbyPoints = <<>>
    /\ thrown = "none"
    /\ InitPage
    /\ points = <<>> /\ gridSize = HalfDegree
    /\ allPoints = <<>> /\ center = Origin /\ radius = 0
    /\ \E lat1 \in Latitudes, lon1 \in Longitudes, lat2 \in Latitudes, lon2 \in Longitudes :
          distanceCall = [lat1 |-> lat1, lon1 |-> lon1, lat2 |-> lat2, lon2 |-> lon2,
                          distance |-> 0]

CallCalculateDistance ==
    /\ "calculateDistance" \notin called
    /\ called' = called \cup {"calculateDistance"}
    /\ distanceCall' = [distanceCall EXCEPT !.distance =
          calculateDistance(distanceCall.lat1, distanceCall.lon1,
                            distanceCall.lat2, distanceCall.lon2)]
    /\ pc' = "returned"
    /\ UNCHANGED <<points, gridSize, clusters, allPoints, center, radius, nearbyPoints, thrown>>
    /\ UNCHANGED pageVars

NextDistance == CallCalculateDistance

SpecDistance == InitDistance /\ [][NextDistance]_vars

(***************************************************************************)
(* C14: calculateDistance is symmetric: the distance returned for (A, B)   *)
(* is the distance calculateDistance gives for (B, A).                     *)
(***************************************************************************)
DistanceSymmetric ==
    "calculateDistance" \in called =>
        distanceCall.distance =
            calculateDistance(distanceCall.lat2, distanceCall.lon2,
                              distanceCall.lat1, distanceCall.lon1)

DistanceSymmetricWitness ==
    /\ "calculateDistance" \in called
    /\ Abs(distanceCall.lat1) # Abs(distanceCall.lat2)
    /\ distanceCall.lon1 # distanceCall.lon2
    /\ distanceCall.distance > Km(5000)

(***************************************************************************)
(* The page.  A setTimeout callback is an entry of timers with the time it *)
(* is due; the callbacks run at their due time, in the order of their due  *)
(* times and, among equal ones, of their scheduling.  A handler, and the   *)
(* part of an async function between two awaits, takes no time.            *)
(***************************************************************************)
MaxLoads == 1

MaxClicks == 2

MaxViews == 1

MaxTime == 13000

\* if (points.length > 1000)
ClusterThreshold == 1000

\* const delay = testMode && testSize > 1000 ? 100 : 500
FastFetchDelay == 100

SlowFetchDelay == 500

\* setTimeout(..., 10000) of findNearbyPoints
NearbyClearDelay == 10000

\* const baseRadius = 1000; // km
BaseRadius == Km(1000)

\* the base radius of the Leaflet mode taken in the fallback mode as well
FallbackRadiusAsBase == Km(1000)

\* radius = 2000 of the fallback mode
FallbackRadius == Km(2000)

\* setView([40.7128, -74.0060], 3)
NewYork == [lat |-> 407128, lng |-> -740060]

InitialZoom == 3

(***************************************************************************)
(* generateTestDataset (src/script.js 153-203).  Math.random is the        *)
(* sequence of draws MathRandom(0, seed), MathRandom(1, seed), ... in      *)
(* units of 1/RandomScale; the seed stands for the run of the generator.   *)
(***************************************************************************)
RandomScale == 10 ^ 4

MathRandom(k, seed) == (k * 6173 + seed * 3889) % RandomScale

\* (Math.random() - 0.5) * 180 and (Math.random() - 0.5) * 360
RandomPoint(i, seed) ==
    Pt(i + 1000,
       (MathRandom(2 * i, seed) - RandomScale \div 2) * ((180 * CoordScale) \div RandomScale),
       (MathRandom(2 * i + 1, seed) - RandomScale \div 2) * ((360 * CoordScale) \div RandomScale))

TestCenters ==
    << [lat |-> 407128, lng |-> -740060],
       [lat |-> 515074, lng |-> -1278],
       [lat |-> 356762, lng |-> 1396503],
       [lat |-> -338688, lng |-> 1512093],
       [lat |-> 488566, lng |-> 23522] >>

\* Math.cos and Math.sin of an angle 0 <= x < 2 pi
CosTurn(x) ==
    IF x <= HalfPiFixed THEN MathCos(x)
    ELSE IF x <= PiFixed THEN 0 - MathCos(PiFixed - x)
    ELSE IF x <= PiFixed + HalfPiFixed THEN 0 - MathCos(x - PiFixed)
    ELSE MathCos(2 * PiFixed - x)

SinTurn(x) == IF x <= PiFixed THEN MathSinAbs(x) ELSE 0 - MathSinAbs(x - PiFixed)

\* centers[Math.floor(Math.random() * centers.length)], an angle, a distance < 0.5
ClusteredPoint(i, seed) ==
    LET c == TestCenters[(MathRandom(3 * i, seed) * Len(TestCenters)) \div RandomScale + 1]
        angle == MulDiv(MathRandom(3 * i + 1, seed), 2 * PiFixed, RandomScale)
        distance == (MathRandom(3 * i + 2, seed) * HalfDegree) \div RandomScale
    IN  Pt(i + 1000,
           c.lat + FMul(distance, CosTurn(angle)),
           c.lng + FMul(distance, SinTurn(angle)))

generateTestDataset(size, type, seed) ==
    IF type = "random" THEN [k \in 1..size |-> RandomPoint(k - 1, seed)]
    ELSE IF type = "clustered" THEN [k \in 1..size |-> ClusteredPoint(k - 1, seed)]
    ELSE <<>>

\* what fetchMapPoints resolves to
fetchMapPoints(testMode, testSize, testType, seed) ==
    IF testMode /\ testSize > 0
    THEN generateTestDataset(testSize, testType, seed)
    ELSE MockMapPoints

\* the delay of the setTimeout in fetchMapPoints
FetchDelay(testMode, testSize) ==
    IF testMode /\ testSize > ClusterThreshold THEN FastFetchDelay ELSE SlowFetchDelay

(***************************************************************************)
(* Markers.  A point's name and description are fixed by its id, so a      *)
(* popup is told by the ids it shows; a click handler by its name and the  *)
(* points it was bound to.                                                 *)
(***************************************************************************)
\* L.marker([point.lat, point.lng]).bindPopup(...).on('click', ...) of loadMapPoints
StandardMarker(point) ==
    [lat |-> point.lat, lng |-> point.lng, icon |-> "default", badge |-> 0,
     popup |-> [title |-> "point", names |-> <<point.id>>, more |-> 0],
     click |-> [handler |-> "handleMarkerClick", points |-> <<point>>]]

\* the single marker of a cluster badged as a cluster of one
SingleAsClusterMarker(cluster) ==
    LET point == cluster.points[1]
    IN  [lat |-> point.lat, lng |-> point.lng, icon |-> "cluster-marker", badge |-> 1,
         popup |-> [title |-> "cluster", names |-> <<point.id>>, more |-> 0],
         click |-> [handler |-> "handleClusterClick", points |-> cluster.points,
                    gridX |-> cluster.gridX, gridY |-> cluster.gridY]]

\* if (cluster.points.length === 1): the marker of loadPointsWithClustering
SingleClusterMarker(cluster) ==
    LET point == cluster.points[1]
    IN  [lat |-> point.lat, lng |-> point.lng, icon |-> "default", badge |-> 0,
         popup |-> [title |-> "point", names |-> <<point.id>>, more |-> 0],
         click |-> [handler |-> "handleMarkerClick", points |-> <<point>>]]

\* the sum of nums[lo], ..., nums[hi], range halved
RECURSIVE SumRange(_, _, _)
SumRange(nums, lo, hi) ==
    IF lo > hi THEN 0
    ELSE IF lo = hi THEN nums[lo]
    ELSE LET mid == (lo + hi) \div 2
         IN  SumRange(nums, lo, mid) + SumRange(nums, mid + 1, hi)

\* cluster.points.reduce((sum, p) => sum + p.lat, 0) / cluster.points.length
CenterLat(cluster) ==
    SumRange([k \in 1..Len(cluster.points) |-> cluster.points[k].lat], 1, Len(cluster.points))
        \div Len(cluster.points)

CenterLng(cluster) ==
    SumRange([k \in 1..Len(cluster.points) |-> cluster.points[k].lng], 1, Len(cluster.points))
        \div Len(cluster.points)

Min(a, b) == IF a < b THEN a ELSE b

Max(a, b) == IF a > b THEN a ELSE b

\* createClusterPopup: the count, the first maxShow = 5 names, how many more
createClusterPopup(pts) ==
    [title |-> "cluster",
     names |-> [k \in 1..Min(5, Len(pts)) |-> pts[k].id],
     more |-> Max(0, Len(pts) - 5)]

\* the marker of a cluster of several points
MultiClusterMarker(cluster) ==
    [lat |-> CenterLat(cluster), lng |-> CenterLng(cluster),
     icon |-> "cluster-marker", badge |-> Len(cluster.points),
     popup |-> createClusterPopup(cluster.points),
     click |-> [handler |-> "handleClusterClick", points |-> cluster.points,
                gridX |-> cluster.gridX, gridY |-> cluster.gridY]]

\* the body of clusters.forEach in loadPointsWithClustering
ClusterMarker(cluster) ==
    IF Len(cluster.points) = 1 THEN SingleClusterMarker(cluster) ELSE MultiClusterMarker(cluster)

\* L.circleMarker of findNearbyPoints; addedAt is the time of the click that added it
NearbyMarker(point, c, t) ==
    [lat |-> point.lat, lng |-> point.lng, icon |-> "circleMarker", badge |-> 0,
     popup |-> [title |-> "nearby", names |-> <<point.id>>,
                distance |-> (DistanceFrom(c, point) + 500) \div 1000],
     addedAt |-> t]

LayerGroup(layers) == [defined |-> TRUE, layers |-> layers]

MapView(c, zoom) == [defined |-> TRUE, center |-> c, zoom |-> zoom]

(***************************************************************************)
(* Timers.                                                                 *)
(***************************************************************************)
\* the callback that runs next: the earliest due, the first scheduled among equals
NextTimer(ts) ==
    CHOOSE i \in 1..Len(ts) :
        \A j \in 1..Len(ts) : ts[i].due < ts[j].due \/ (ts[i].due = ts[j].due /\ i <= j)

RemoveAt(ts, i) == SubSeq(ts, 1, i - 1) \o SubSeq(ts, i + 1, Len(ts))

\* await new Promise(resolve => setTimeout(resolve, delay)) of fetchMapPoints, with
\* what the awaiting loadMapPoints and its caller go on with
FetchTimer(t, testMode, testSize, testType, fromButton) ==
    [kind |-> "fetch", due |-> t + FetchDelay(testMode, testSize), started |-> t,
     testMode |-> testMode, testSize |-> testSize, testType |-> testType,
     fromButton |-> fromButton]

\* setTimeout(..., 3000) of updateStatus
StatusClearDelay == 3000

\* setTimeout(resolve, 300) of fetchPointDetails
DetailsFetchDelay == 300

\* setTimeout(..., 10000) of displayNearbyPointsDetails
SidebarClearDelay == 10000

\* updateStatus(message) at time t: the timer it adds; the caller sets status
updateStatus(ts, message, t) ==
    Append(ts, [kind |-> "status", due |-> t + StatusClearDelay, message |-> message])

\* the callback of updateStatus: if (statusElement.textContent === message)
StatusAfterTimer(text, message) == IF text = message THEN NoMessage ELSE text

\* Math.round of a distance or radius in km
RoundKm(metres) == (metres + 500) \div 1000

\* the message loadMapPoints starts with
LoadingMessage(testMode, testSize) ==
    IF testMode THEN Message("Loading test points...", testSize)
    ELSE Message("Loading map points...", 0)

\* the message loadMapPoints ends with; the render time is 0
LoadedMessage(testMode, n, total) ==
    IF testMode THEN [text |-> "Loaded test points (ms total, 0ms render)", n |-> n,
                      total |-> total]
    ELSE Message("Loaded points", n)

\* the click handler leaves without scheduling the clearing
ScheduleNothing(ts, t) == ts

\* setTimeout(() => { nearbyMarkersLayer.clearLayers(); ... }, 10000)
ScheduleNearbyClear(ts, t) == Append(ts, [kind |-> "clearNearby", due |-> t + NearbyClearDelay])

(***************************************************************************)
(* The sidebar.  The children of pointDetails are paragraphs, detail items *)
(* and nearby sections; a nearby section is told by the click that made    *)
(* it.  What fetchPointDetails resolves to is fixed by the point id, so an *)
(* entry of the nearby list is told by the id, with its distance badge.    *)
(***************************************************************************)
\* mockDetails[pointId] || the 'Unknown Location' details, written 0
fetchPointDetails(pointId) == IF pointId \in 1..20 THEN pointId ELSE 0

\* an entry of nearbyHtml: the point, its distance badge, its details
NearbyItem(point, c) ==
    [id |-> point.id, distance |-> RoundKm(DistanceFrom(c, point)),
     details |-> fetchPointDetails(point.id)]

\* the div of class nearby-points-section, with the loading text or the entries
NearbySection(click, loaded, items) ==
    [class |-> "nearby-points-section", click |-> click, loaded |-> loaded, items |-> items]

\* `Point Details + Nearby (${nearbyPoints.length})`
NearbyTitle(n) == [text |-> "Point Details + Nearby", count |-> n]

\* displayNearbyPointsDetails up to its first await
SidebarWithSearch(sb, pts, click) ==
    IF pts = <<>>
    THEN [sb EXCEPT !.children = <<Paragraph("No nearby points found in the search area.")>>]
    ELSE [title |-> NearbyTitle(Len(pts)),
          children |-> Append(sb.children, NearbySection(click, FALSE, <<>>))]

\* the loop of displayNearbyPointsDetails: it awaits fetchPointDetails once for
\* each point, one after the other, and nothing of the page changes or is read
\* before the last has resolved; the waits are taken as one
DetailsTimer(t, click, pts, c) ==
    [kind |-> "details", due |-> t + DetailsFetchDelay * Len(pts), click |-> click,
     clickedAt |-> t, points |-> pts, center |-> c]

\* nearbySection.innerHTML = ...: seen in the sidebar while the section is a child
SidebarWithItems(sb, click, items) ==
    LET ch == sb.children
    IN  [sb EXCEPT !.children =
            [k \in 1..Len(ch) |->
                IF ch[k].class = "nearby-points-section" /\ ch[k].click = click
                THEN NearbySection(click, TRUE, items)
                ELSE ch[k]]]

\* setTimeout(() => { ... }, 10000) at the end of displayNearbyPointsDetails
ScheduleSidebarClear(ts, t, clickedAt) ==
    Append(ts, [kind |-> "clearSidebar", due |-> t + SidebarClearDelay,
                clickedAt |-> clickedAt])

\* the callback of that timer: the title, the first nearby section, the default text
SidebarAfterTimer(sb) ==
    LET ch == sb.children
        sections == {k \in 1..Len(ch) : ch[k].class = "nearby-points-section"}
        rest == IF sections = {} THEN ch
                ELSE RemoveAt(ch, CHOOSE k \in sections : \A j \in sections : k <= j)
    IN  [title |-> PlainTitle, children |-> IF rest = <<>> THEN DefaultDetails ELSE rest]

\* displayPointDetails(details): detailsContainer.innerHTML = ...
displayPointDetails(sb, details) ==
    [sb EXCEPT !.children = <<[class |-> "point-detail-item", details |-> details]>>]

(***************************************************************************)
(* The inputs of the page: whether Leaflet was loaded, the views the user  *)
(* or fitBounds can give the map, the choices of the two selects.          *)
(***************************************************************************)
ViewCenters == {NewYork}

\* a zoom below, at and above the one the radius is based on
ZoomLevels == {InitialZoom - 1, InitialZoom, InitialZoom + 2}

\* the least and the greatest of nums[lo], ..., nums[hi], range halved
RECURSIVE MinRange(_, _, _)
MinRange(nums, lo, hi) ==
    IF lo = hi THEN nums[lo]
    ELSE LET mid == (lo + hi) \div 2
         IN  Min(MinRange(nums, lo, mid), MinRange(nums, mid + 1, hi))

RECURSIVE MaxRange(_, _, _)
MaxRange(nums, lo, hi) ==
    IF lo = hi THEN nums[lo]
    ELSE LET mid == (lo + hi) \div 2
         IN  Max(MaxRange(nums, lo, mid), MaxRange(nums, mid + 1, hi))

\* the middle of the bounds of the markers; pad(0.1) widens them evenly
BoundsCenter(layers) ==
    LET lats == [k \in 1..Len(layers) |-> layers[k].lat]
        lngs == [k \in 1..Len(layers) |-> layers[k].lng]
    IN  [lat |-> (MinRange(lats, 1, Len(lats)) + MaxRange(lats, 1, Len(lats))) \div 2,
         lng |-> (MinRange(lngs, 1, Len(lngs)) + MaxRange(lngs, 1, Len(lngs))) \div 2]

\* map.fitBounds(bounds): the view is centred on the bounds; its zoom depends on
\* the size of the map element
FitBounds(layers) == {MapView(BoundsCenter(layers), zoom) : zoom \in ZoomLevels}

\* the views the user can pan and zoom to
UserViews == {MapView(c, zoom) : c \in ViewCenters, zoom \in ZoomLevels}

\* the runs of Math.random the model draws test data from
Seeds == {1}

TestTypes == {"random", "clustered"}

\* testSizeSelect.value: 0 is the original data
SmallSizes == {0, 4}

LargeSizes == {ClusterThreshold, ClusterThreshold + 1}

TimeSteps == {6000}

\* if (map.getZoom() < 10)
DetailsZoom == 10

\* map.getZoom() + 3
ZoomStep == 3

\* Math.min(..., 15)
MaxClickZoom == 15

\* a click that leaves the zoom as it is
ClusterZoomUnchanged(zoom) == zoom

\* Math.min(map.getZoom() + 3, 15)
ClusterZoom(zoom) == Min(zoom + ZoomStep, MaxClickZoom)

\* the markers a click is tried on: the first MaxMarker of the layer
MaxMarker == 2

ClickedMarkers == 1..MaxMarker

\* the zoom levels the user sets before clicking a cluster: the least, the ones
\* at the threshold of handleClusterClick, and one above its cap
ClickViews == {MapView(NewYork, zoom) : zoom \in {0, DetailsZoom - 1, DetailsZoom, MaxClickZoom + 1}}

\* the data sets that are rendered as clusters
ClusteredSizes == {ClusterThreshold + 1}

ButtonLeftEnabled == [disabled |-> FALSE, textContent |-> "Loading..."]

\* loadTestBtn.disabled = true; loadTestBtn.textContent = 'Loading...'
DisabledButton == [disabled |-> TRUE, textContent |-> "Loading..."]

\* loadTestBtn.disabled = false; loadTestBtn.textContent = 'Load Test Data'
EnabledButton == [disabled |-> FALSE, textContent |-> "Load Test Data"]

\* the new markers are added to the ones that were there
AddedToOldLayers(old, new) == old \o new

\* markersLayer.clearLayers() and then the addLayer calls of the load
RenderedLayers(old, new) == new

\* a threshold one too low: >= in place of >
ShouldClusterFromThreshold(pts) == Len(pts) >= ClusterThreshold

\* the clustering branch never taken
ShouldClusterNever(pts) == FALSE

\* if (points.length > 1000)
ShouldCluster(pts) == Len(pts) > ClusterThreshold

\* baseRadius / Math.pow(2, zoomLevel - 3): the exponent not kept from going negative
ZoomRadiusUnclamped(zoomLevel) ==
    IF zoomLevel >= 3 THEN BaseRadius \div (2 ^ (zoomLevel - 3))
    ELSE BaseRadius * (2 ^ (3 - zoomLevel))

\* baseRadius / Math.pow(2, Math.max(0, zoomLevel - 3)), in metres
ZoomRadius(zoomLevel) == BaseRadius \div (2 ^ Max(0, zoomLevel - 3))

InitSpec ==
    /\ pc = "start"
    /\ called = {}
    /\ points = <<>> /\ gridSize = HalfDegree /\ clusters = <<>>
    /\ allPoints = <<>>
    /\ center = Origin /\ radius = 0 /\ nearbyPoints = <<>>
    /\ thrown = "none"
    /\ distanceCall = NoDistanceCall
    /\ InitPage

\* the DOMContentLoaded listener: the map, loadMapPoints(), setupEventListeners()
DOMContentLoaded(leaflet) ==
    /\ pc = "start"
    /\ pc' = "ready"
    /\ isLeafletAvailable' = leaflet
    /\ map' = IF leaflet THEN MapView(NewYork, InitialZoom) ELSE map
    /\ markersLayer' = IF leaflet THEN LayerGroup(<<>>) ELSE markersLayer
    /\ nearbyMarkersLayer' = IF leaflet THEN LayerGroup(<<>>) ELSE nearbyMarkersLayer
    /\ status' = LoadingMessage(FALSE, 0)
    /\ timers' = Append(updateStatus(timers, status', now),
                        FetchTimer(now, FALSE, 0, "random", FALSE))
    /\ UNCHANGED <<called, points, gridSize, clusters, allPoints, center, radius,
                   nearbyPoints, thrown, distanceCall>>
    /\ UNCHANGED <<performanceMetrics, loadTestBtn, now, used, clusterCalls, renders, sidebar>>

\* handleLoadTestData up to the await of the fetch; a disabled button
\* dispatches no click
LoadTestDataClicked(testSize, testType) ==
    /\ pc = "ready"
    /\ ~loadTestBtn.disabled
    /\ loadTestBtn' = DisabledButton
    /\ status' = LoadingMessage(testSize # 0, testSize)
    /\ timers' = Append(updateStatus(timers, status', now),
                        IF testSize = 0
                        THEN FetchTimer(now, FALSE, 0, "random", TRUE)
                        ELSE FetchTimer(now, TRUE, testSize, testType, TRUE))
    /\ used' = [used EXCEPT !.loads = @ + 1]
    /\ UNCHANGED callVars
    /\ UNCHANGED <<isLeafletAvailable, map, markersLayer, nearbyMarkersLayer,
                   performanceMetrics, now, clusterCalls, renders, sidebar>>

\* the click handler of the Load Test Data button
handleLoadTestData(testSize, testType) ==
    /\ used.loads < MaxLoads
    /\ LoadTestDataClicked(testSize, testType)

\* the fetch timer fires: fetchMapPoints resolves, loadMapPoints renders and
\* measures, and handleLoadTestData, when it was the caller, frees the button
FetchCompletes ==
    /\ timers # <<>>
    /\ timers[NextTimer(timers)].kind = "fetch"
    /\ \E seed \in Seeds :
          LET t == timers[NextTimer(timers)]
              render == isLeafletAvailable /\ markersLayer.defined
              rest == RemoveAt(timers, NextTimer(timers))
          IN  /\ allPoints' = fetchMapPoints(t.testMode, t.testSize, t.testType, seed)
              /\ now' = t.due
              /\ renders' = renders + 1
              /\ status' = LoadedMessage(t.testMode, Len(allPoints'), t.due - t.started)
              /\ IF render /\ ShouldCluster(allPoints')
                 THEN /\ gridSize' = HalfDegree
                      /\ clusters' = createGridClusters(allPoints', HalfDegree)
                      /\ points' = PointsAfterClustering(allPoints', HalfDegree)
                      /\ clusterCalls' = clusterCalls + 1
                      /\ markersLayer' =
                            LayerGroup(RenderedLayers(markersLayer.layers,
                                [k \in 1..Len(clusters') |-> ClusterMarker(clusters'[k])]))
                      /\ performanceMetrics' =
                            [pointCount |-> Len(allPoints'), clusterCount |-> Len(clusters')]
                      /\ timers' =
                            updateStatus(
                                updateStatus(rest,
                                    Message("Clustering points for better performance...",
                                            Len(allPoints')), t.due),
                                status', t.due)
                 ELSE /\ UNCHANGED <<points, gridSize, clusters, clusterCalls>>
                      /\ markersLayer' =
                            IF render
                            THEN LayerGroup(RenderedLayers(markersLayer.layers,
                                    [k \in 1..Len(allPoints') |-> StandardMarker(allPoints'[k])]))
                            ELSE markersLayer
                      /\ performanceMetrics' =
                            [performanceMetrics EXCEPT !.pointCount = Len(allPoints')]
                      /\ timers' = updateStatus(rest, status', t.due)
              /\ map' \in IF render /\ Len(allPoints') > 0
                         THEN FitBounds(markersLayer'.layers)
                         ELSE {map}
              /\ used' = IF render /\ Len(allPoints') > 0
                         THEN [used EXCEPT !.zoomIns = 0]
                         ELSE used
              /\ loadTestBtn' = IF t.fromButton THEN EnabledButton ELSE loadTestBtn
    /\ UNCHANGED <<pc, called, center, radius, nearbyPoints, thrown, distanceCall>>
    /\ UNCHANGED <<isLeafletAvailable, nearbyMarkersLayer, sidebar>>

\* the fetch timer fires and the await of the fetch throws: the catch of
\* loadMapPoints reports the error, and handleLoadTestData, when it was the
\* caller, frees the button in its finally block.  The mock fetch of the
\* source never rejects; this is the path its callers keep for a fetch that
\* does.
LoadFails ==
    /\ timers # <<>>
    /\ timers[NextTimer(timers)].kind = "fetch"
    /\ LET t == timers[NextTimer(timers)]
           rest == RemoveAt(timers, NextTimer(timers))
       IN  /\ now' = t.due
           /\ status' = Message("Error loading points", 0)
           /\ timers' = updateStatus(rest, status', t.due)
           /\ loadTestBtn' = IF t.fromButton THEN EnabledButton ELSE loadTestBtn
    /\ UNCHANGED callVars
    /\ UNCHANGED <<isLeafletAvailable, map, markersLayer, nearbyMarkersLayer,
                   performanceMetrics, used, clusterCalls, renders, sidebar>>

\* findNearbyPoints, the click handler of the Find Nearby Points button, with
\* displayNearbyPointsDetails up to its first await
findNearbyPoints ==
    /\ pc = "ready"
    /\ used.clicks < MaxClicks
    /\ used' = [used EXCEPT !.clicks = @ + 1]
    /\ IF isLeafletAvailable /\ map.defined
       THEN center' = map.center /\ radius' = ZoomRadius(map.zoom)
       ELSE center' = Melbourne /\ radius' = FallbackRadius
    /\ nearbyPoints' = NearbySearch(allPoints, center', radius')
    /\ allPoints' = AllPointsAfterSearch(allPoints, center', radius')
    /\ nearbyMarkersLayer' =
          IF isLeafletAvailable /\ map.defined
          THEN LayerGroup([k \in 1..Len(nearbyPoints') |->
                              NearbyMarker(nearbyPoints'[k], center', now)])
          ELSE nearbyMarkersLayer
    /\ sidebar' = SidebarWithSearch(sidebar, nearbyPoints', used'.clicks)
    /\ status' = Message("Found nearby points", Len(nearbyPoints'))
    /\ LET first == IF isLeafletAvailable /\ map.defined
                    THEN ScheduleNearbyClear(
                             updateStatus(timers,
                                 Message("Finding points within km...", RoundKm(radius')), now),
                             now)
                    ELSE updateStatus(timers,
                             Message("Demo mode: Finding points within 2000km of Melbourne...",
                                     0), now)
           second == IF nearbyPoints' = <<>> THEN first
                     ELSE Append(first, DetailsTimer(now, used'.clicks, nearbyPoints',
                                                     center'))
       IN  timers' = updateStatus(second, status', now)
    /\ UNCHANGED <<pc, called, points, gridSize, clusters, thrown, distanceCall>>
    /\ UNCHANGED <<isLeafletAvailable, map, markersLayer, performanceMetrics, loadTestBtn,
                   now, clusterCalls, renders>>

\* the details of the last nearby point arrive: displayNearbyPointsDetails fills
\* its section and sets its timer
DetailsFetched ==
    /\ timers # <<>>
    /\ timers[NextTimer(timers)].kind = "details"
    /\ LET t == timers[NextTimer(timers)]
           rest == RemoveAt(timers, NextTimer(timers))
       IN  /\ now' = t.due
           /\ timers' = ScheduleSidebarClear(rest, t.due, t.clickedAt)
           /\ sidebar' = SidebarWithItems(sidebar, t.click,
                            [k \in 1..Len(t.points) |-> NearbyItem(t.points[k], t.center)])
    /\ UNCHANGED callVars
    /\ UNCHANGED <<isLeafletAvailable, map, markersLayer, nearbyMarkersLayer,
                   performanceMetrics, loadTestBtn, used, clusterCalls, renders, status>>

\* the callback of the setTimeout of displayNearbyPointsDetails
SidebarClearFires ==
    /\ timers # <<>>
    /\ timers[NextTimer(timers)].kind = "clearSidebar"
    /\ now' = timers[NextTimer(timers)].due
    /\ timers' = RemoveAt(timers, NextTimer(timers))
    /\ sidebar' = SidebarAfterTimer(sidebar)
    /\ UNCHANGED callVars
    /\ UNCHANGED <<isLeafletAvailable, map, markersLayer, nearbyMarkersLayer,
                   performanceMetrics, loadTestBtn, used, clusterCalls, renders, status>>

\* the callback of the setTimeout of findNearbyPoints
NearbyClearFires ==
    /\ timers # <<>>
    /\ timers[NextTimer(timers)].kind = "clearNearby"
    /\ now' = timers[NextTimer(timers)].due
    /\ status' = Message("Loaded points", Len(allPoints))
    /\ timers' = updateStatus(RemoveAt(timers, NextTimer(timers)), status', now')
    /\ nearbyMarkersLayer' = LayerGroup(<<>>)
    /\ UNCHANGED callVars
    /\ UNCHANGED <<isLeafletAvailable, map, markersLayer, performanceMetrics, loadTestBtn,
                   used, clusterCalls, renders, sidebar>>

\* the callback of the setTimeout of updateStatus
StatusTimerFires ==
    /\ timers # <<>>
    /\ timers[NextTimer(timers)].kind = "status"
    /\ now' = timers[NextTimer(timers)].due
    /\ status' = StatusAfterTimer(status, timers[NextTimer(timers)].message)
    /\ timers' = RemoveAt(timers, NextTimer(timers))
    /\ UNCHANGED callVars
    /\ UNCHANGED <<isLeafletAvailable, map, markersLayer, nearbyMarkersLayer,
                   performanceMetrics, loadTestBtn, used, clusterCalls, renders, sidebar>>

\* the argument displayClusterDetails passes to displayPointDetails
ClusterDetails(cluster) ==
    [title |-> "Cluster Details", count |-> Len(cluster.points),
     gridX |-> cluster.gridX, gridY |-> cluster.gridY,
     sample |-> [k \in 1..Min(3, Len(cluster.points)) |-> cluster.points[k].id]]

\* handleClusterClick(cluster): the click handler of the k-th marker, a cluster marker
handleClusterClick(k) ==
    /\ pc = "ready"
    /\ isLeafletAvailable /\ map.defined /\ markersLayer.defined
    /\ k <= Len(markersLayer.layers)
    /\ markersLayer.layers[k].click.handler = "handleClusterClick"
    /\ LET cluster == markersLayer.layers[k].click
       IN  IF map.zoom < DetailsZoom
           THEN /\ map' = MapView([lat |-> CenterLat(cluster), lng |-> CenterLng(cluster)],
                                  ClusterZoom(map.zoom))
                /\ used' = [used EXCEPT !.zoomIns = @ + 1]
                /\ UNCHANGED sidebar
           ELSE /\ sidebar' = displayPointDetails(sidebar, ClusterDetails(cluster))
                /\ UNCHANGED <<map, used>>
    /\ UNCHANGED callVars
    /\ UNCHANGED <<isLeafletAvailable, markersLayer, nearbyMarkersLayer, performanceMetrics,
                   loadTestBtn, now, timers, clusterCalls, renders, status>>

\* the user pans or zooms the map
UserMovesMap(view) ==
    /\ pc = "ready"
    /\ isLeafletAvailable /\ map.defined
    /\ used.views < MaxViews
    /\ view # map
    /\ map' = view
    /\ used' = [used EXCEPT !.views = @ + 1, !.zoomIns = 0]
    /\ UNCHANGED callVars
    /\ UNCHANGED <<isLeafletAvailable, markersLayer, nearbyMarkersLayer, performanceMetrics,
                   loadTestBtn, now, timers, clusterCalls, renders, status, sidebar>>

\* time passes with no callback due
Advance(d) ==
    /\ pc = "ready"
    /\ now + d <= MaxTime
    /\ \A i \in 1..Len(timers) : now + d <= timers[i].due
    /\ now' = now + d
    /\ UNCHANGED callVars
    /\ UNCHANGED <<isLeafletAvailable, map, markersLayer, nearbyMarkersLayer,
                   performanceMetrics, loadTestBtn, timers, used, clusterCalls, renders,
                   status, sidebar>>

(***************************************************************************)
(* Spec: the page with the original data and small test data: loads,       *)
(* Find Nearby clicks and the timers; the view is the one the page starts  *)
(* with or the one a load fits to its markers.                             *)
(***************************************************************************)
Init == InitSpec

Next ==
    \/ \E leaflet \in BOOLEAN : DOMContentLoaded(leaflet)
    \/ \E testSize \in SmallSizes, testType \in TestTypes : handleLoadTestData(testSize, testType)
    \/ FetchCompletes
    \/ findNearbyPoints
    \/ NearbyClearFires
    \/ DetailsFetched
    \/ SidebarClearFires
    \/ StatusTimerFires
    \/ \E d \in TimeSteps : Advance(d)

Spec == Init /\ [][Next]_vars

(***************************************************************************)
(* SpecView: the page with the original data only: Find Nearby clicks,     *)
(* view changes and the timers, the Load Test Data button left alone.      *)
(***************************************************************************)
InitView == InitSpec

NextView ==
    \/ \E leaflet \in BOOLEAN : DOMContentLoaded(leaflet)
    \/ FetchCompletes
    \/ findNearbyPoints
    \/ NearbyClearFires
    \/ DetailsFetched
    \/ SidebarClearFires
    \/ StatusTimerFires
    \/ \E view \in UserViews : UserMovesMap(view)
    \/ \E d \in TimeSteps : Advance(d)

SpecView == InitView /\ [][NextView]_vars

(***************************************************************************)
(* SpecLoad: the page with test data around the clustering threshold:      *)
(* the loads only.                                                         *)
(***************************************************************************)
InitLoad == InitSpec

NextLoad ==
    \/ \E leaflet \in BOOLEAN : DOMContentLoaded(leaflet)
    \/ \E testSize \in LargeSizes, testType \in TestTypes : handleLoadTestData(testSize, testType)
    \/ FetchCompletes
    \/ StatusTimerFires

SpecLoad == InitLoad /\ [][NextLoad]_vars

(***************************************************************************)
(* SpecButton: the page with the Load Test Data button clicked more than   *)
(* once, and loads that end in an error.                                   *)
(***************************************************************************)
MaxButtonLoads == 2

\* testSizeSelect.value: the original data and a small test set
ButtonSizes == {0, 4}

InitButton == InitSpec

ButtonLoad(testSize, testType) ==
    /\ used.loads < MaxButtonLoads
    /\ LoadTestDataClicked(testSize, testType)

NextButton ==
    \/ \E leaflet \in BOOLEAN : DOMContentLoaded(leaflet)
    \/ \E testSize \in ButtonSizes : ButtonLoad(testSize, "clustered")
    \/ FetchCompletes
    \/ LoadFails
    \/ StatusTimerFires

SpecButton == InitButton /\ [][NextButton]_vars

(***************************************************************************)
(* Vocabulary of the page properties.                                      *)
(***************************************************************************)
\* a load has gone on after its fetch in this step, with the map there to render on
LoadRendered == isLeafletAvailable /\ renders' = renders + 1

\* the markers on the map are those loadPointsWithClustering made of allPoints
ClusteredRendering == isLeafletAvailable /\ clusterCalls > 0 /\ points = allPoints

\* the k-th marker is an individual marker of the k-th point
OneMarkerPerPoint(layers, pts) ==
    /\ Len(layers) = Len(pts)
    /\ \A k \in 1..Len(pts) :
          /\ layers[k].lat = pts[k].lat /\ layers[k].lng = pts[k].lng
          /\ layers[k].icon = "default"
          /\ layers[k].click.handler = "handleMarkerClick"
          /\ layers[k].click.points = <<pts[k]>>

(***************************************************************************)
(* C16: a cluster with exactly one member gets, from                       *)
(* loadPointsWithClustering, the marker the non-clustered path of          *)
(* loadMapPoints adds for that point: same coordinates, same popup, same   *)
(* click handler on that point, no cluster badge.                          *)
(***************************************************************************)
SingleMemberClusterAsPoint ==
    ClusteredRendering =>
        /\ Len(markersLayer.layers) = Len(clusters)
        /\ \A k \in 1..Len(clusters) :
              Len(clusters[k].points) = 1 =>
                  markersLayer.layers[k] = StandardMarker(clusters[k].points[1])

SingleMemberClusterAsPointWitness ==
    /\ ClusteredRendering
    /\ \E k \in 1..Len(clusters) :
          Len(clusters[k].points) = 1 /\ markersLayer.layers[k].badge = 0
    /\ \E k \in 1..Len(clusters) :
          Len(clusters[k].points) > 1 /\ markersLayer.layers[k].badge = Len(clusters[k].points)

SearchesTwoThousandKmAroundMapCenter ==
    [][used.clicks' = used.clicks + 1 =>
          /\ radius' = Km(2000)
          /\ map.defined => center' = map.center]_vars

(***************************************************************************)
(* C20: no highlight that a Find Nearby click put on the map is still      *)
(* there once 10 seconds have passed since that click, whatever clicks     *)
(* follow.                                                                 *)
(***************************************************************************)
HighlightsGoneAfterTenSeconds ==
    nearbyMarkersLayer.defined =>
        \A k \in 1..Len(nearbyMarkersLayer.layers) :
            now <= nearbyMarkersLayer.layers[k].addedAt + 10000

HighlightsGoneAfterTenSecondsWitness ==
    /\ isLeafletAvailable
    /\ used.clicks = 2
    /\ nearbyPoints # <<>>
    /\ nearbyMarkersLayer.layers = <<>>
    /\ timers = <<>>
    /\ now > 10000

(***************************************************************************)
(* Vocabulary of the status, sidebar and timer properties.                 *)
(***************************************************************************)
\* this step is a click on Find Nearby Points
NearbyClicked == used'.clicks = used.clicks + 1

\* this step is a click, a load or a view change of the user
UserActed ==
    \/ used'.clicks # used.clicks
    \/ used'.loads # used.loads
    \/ used'.views # used.views

\* this step is the callback of the timer due next, of the given kind
TimerFired(kind) ==
    /\ ~UserActed
    /\ timers # <<>>
    /\ timers[NextTimer(timers)].kind = kind
    /\ now' = timers[NextTimer(timers)].due
    /\ timers' # timers

\* the ids of the points of pts, in order
Ids(pts) == [k \in 1..Len(pts) |-> pts[k].id]

\* pts holds exactly the points of all that lie within r of c, nearest first
IsNearbyResult(pts, all, c, r) ==
    /\ \A k \in 1..Len(all) :
          Count(pts, all[k]) = IF DistanceFrom(c, all[k]) <= r THEN Count(all, all[k]) ELSE 0
    /\ Len(pts) = Cardinality({k \in 1..Len(all) : DistanceFrom(c, all[k]) <= r})
    /\ \A k \in 1..(Len(pts) - 1) : DistanceFrom(c, pts[k]) <= DistanceFrom(c, pts[k + 1])

(***************************************************************************)
(* C21: without Leaflet, map, markersLayer and nearbyMarkersLayer stay     *)
(* undefined and loading and Find Nearby still work: a load stores the     *)
(* fetched points in allPoints; a click searches allPoints within 2000 km  *)
(* of Melbourne, nearest first, and puts the result in the sidebar, first  *)
(* as a section that is loading, then, when the last details have come,    *)
(* as the list of the points found with their distances, 300 ms per point  *)
(* after the click.                                                        *)
(***************************************************************************)
FallbackStaysFunctional ==
    [][(pc = "ready" /\ ~isLeafletAvailable) =>
          /\ map' = Undefined /\ markersLayer' = Undefined /\ nearbyMarkersLayer' = Undefined
          /\ \A i \in 1..Len(timers') : timers'[i].kind # "clearNearby"
          /\ TimerFired("fetch") =>
                LET t == timers[NextTimer(timers)]
                IN  \E seed \in Seeds :
                       allPoints' = fetchMapPoints(t.testMode, t.testSize, t.testType, seed)
          /\ NearbyClicked =>
                /\ center' = [lat |-> -378136, lng |-> 1449631]
                /\ radius' = Km(2000)
                /\ allPoints' = allPoints
                /\ IsNearbyResult(nearbyPoints', allPoints, center', radius')
                /\ IF nearbyPoints' = <<>>
                   THEN sidebar'.children =
                            <<Paragraph("No nearby points found in the search area.")>>
                   ELSE /\ sidebar'.title = NearbyTitle(Len(nearbyPoints'))
                        /\ sidebar'.children =
                              Append(sidebar.children,
                                     NearbySection(used'.clicks, FALSE, <<>>))
                        /\ \E i \in 1..Len(timers') :
                              /\ timers'[i].kind = "details"
                              /\ timers'[i].click = used'.clicks
                              /\ timers'[i].points = nearbyPoints'
                              /\ timers'[i].due = now + 300 * Len(nearbyPoints')
          /\ TimerFired("details") =>
                LET t == timers[NextTimer(timers)]
                IN  \E k \in 1..Len(sidebar'.children) :
                       /\ sidebar'.children[k].class = "nearby-points-section"
                       /\ sidebar'.children[k].click = t.click
                       /\ sidebar'.children[k].loaded
                       /\ Len(sidebar'.children[k].items) = Len(t.points)
                       /\ \A j \in 1..Len(t.points) :
                             /\ sidebar'.children[k].items[j].id = t.points[j].id
                             /\ sidebar'.children[k].items[j].distance =
                                   RoundKm(DistanceFrom(Melbourne, t.points[j]))]_vars

FallbackStaysFunctionalWitness ==
    /\ pc = "ready" /\ ~isLeafletAvailable
    /\ map = Undefined /\ markersLayer = Undefined /\ nearbyMarkersLayer = Undefined
    /\ allPoints = MockMapPoints
    /\ Len(nearbyPoints) = 11
    /\ \E k \in 1..Len(sidebar.children) :
          /\ sidebar.children[k].class = "nearby-points-section"
          /\ sidebar.children[k].loaded
          /\ Ids(sidebar.children[k].items) = Ids(nearbyPoints)

(***************************************************************************)
(* C22 as it is stated: with Leaflet the radius of a search is             *)
(* 1000 / 2^(zoom - 3) km at every zoom level of the map, so it doubles    *)
(* with every level below 3 as it halves with every level above.           *)
(***************************************************************************)
RadiusHalvesPerZoomEverywhere ==
    [][(NearbyClicked /\ isLeafletAvailable /\ map.defined) =>
          radius' = IF map.zoom >= 3
                    THEN Km(1000) \div (2 ^ (map.zoom - 3))
                    ELSE Km(1000) * (2 ^ (3 - map.zoom))]_vars

(***************************************************************************)
(* C22 amended: with Leaflet the radius of a search is 1000 / 2^(zoom - 3) *)
(* km at every zoom level of 3 or more, and 1000 km at every zoom level    *)
(* below 3; the center is the center of the map.                           *)
(***************************************************************************)
RadiusHalvesPerZoomAboveThree ==
    [][(NearbyClicked /\ isLeafletAvailable /\ map.defined) =>
          /\ radius' = IF map.zoom >= 3 THEN Km(1000) \div (2 ^ (map.zoom - 3)) ELSE Km(1000)
          /\ center' = map.center]_vars

RadiusHalvesPerZoomAboveThreeWitness ==
    /\ isLeafletAvailable
    /\ used.clicks = 2
    /\ map.zoom = 2
    /\ center = map.center
    /\ radius = Km(1000)
    /\ nearbyPoints # <<>>

(***************************************************************************)
(* SpecClick: the page with a test data set of the clustered type, which   *)
(* is rendered as clusters: clicks on the cluster markers and zoom changes *)
(* by the user, in the first 3 seconds after the page has loaded.  The     *)
(* timers of updateStatus are due later and stay pending.                  *)
(***************************************************************************)
InitClick == InitSpec

ClickSomeCluster == \E k \in ClickedMarkers : handleClusterClick(k)

NextClick ==
    \/ \E leaflet \in BOOLEAN : DOMContentLoaded(leaflet)
    \/ \E testSize \in ClusteredSizes : handleLoadTestData(testSize, "clustered")
    \/ FetchCompletes
    \/ ClickSomeCluster
    \/ \E view \in ClickViews : UserMovesMap(view)

SpecClick == InitClick /\ [][NextClick]_vars

\* one of the markers that are clicked is a cluster marker
ClusterMarkerOnMap ==
    /\ isLeafletAvailable /\ markersLayer.defined
    /\ \E k \in ClickedMarkers :
          /\ k <= Len(markersLayer.layers)
          /\ markersLayer.layers[k].click.handler = "handleClusterClick"

\* the sidebar shows the details of a cluster
ClusterDetailsShown ==
    /\ Len(sidebar.children) = 1
    /\ sidebar.children[1].class = "point-detail-item"
    /\ sidebar.children[1].details.title = "Cluster Details"

\* this step is a click on the k-th marker, a cluster marker
ClusterClicked(k) ==
    /\ ClusterMarkerOnMap
    /\ k <= Len(markersLayer.layers)
    /\ markersLayer.layers[k].click.handler = "handleClusterClick"
    /\ markersLayer' = markersLayer /\ timers' = timers /\ now' = now
    /\ used'.views = used.views
    /\ IF map.zoom < 10
       THEN map' = MapView([lat |-> CenterLat(markersLayer.layers[k].click),
                            lng |-> CenterLng(markersLayer.layers[k].click)], map'.zoom)
       ELSE sidebar' = displayPointDetails(sidebar, ClusterDetails(markersLayer.layers[k].click))

(***************************************************************************)
(* C23: a click on a cluster marker either zooms in or shows details.      *)
(* Below zoom 10 it centres the map on the mean of the cluster's points    *)
(* and raises the zoom by exactly 3, to at most 15, the sidebar staying as *)
(* it is; at zoom 10 or more it puts the details of the cluster (count,    *)
(* grid cell, first three points) in the sidebar, the view staying as it   *)
(* is.  So clicks on clusters zoom in at most 4 times in a row, from any   *)
(* zoom level the view was left at, before a click shows details.          *)
(***************************************************************************)
ClusterClickZoomsOrShows ==
    /\ [][\A k \in ClickedMarkers :
             ClusterClicked(k) =>
                IF map.zoom < 10
                THEN /\ map'.zoom = map.zoom + 3
                     /\ map'.zoom <= 15
                     /\ sidebar' = sidebar
                ELSE /\ map' = map
                     /\ ClusterDetailsShown'
                     /\ sidebar'.children[1].details.count =
                           Len(markersLayer.layers[k].click.points)]_vars
    /\ [](used.zoomIns <= 4 /\ (map.defined => 3 * used.zoomIns <= map.zoom))

ClusterClickZoomsOrShowsWitness ==
    /\ ClusterMarkerOnMap
    /\ ClusterDetailsShown
    /\ map.zoom = 12
    /\ map.center # NewYork
    /\ used.zoomIns = 4

(***************************************************************************)
(* C24: with Leaflet, the timer that takes the nearby section out of the   *)
(* sidebar is due when the timer that clears the highlights of the same    *)
(* click is: 10 seconds after the click.                                   *)
(***************************************************************************)
SidebarClearedWithMarkers ==
    isLeafletAvailable =>
        \A i \in 1..Len(timers) :
            timers[i].kind = "clearSidebar" => timers[i].due = timers[i].clickedAt + 10000

(***************************************************************************)
(* C27: a status timer blanks the status line only 3 seconds or more after *)
(* the latest updateStatus call: the timer of an earlier call never blanks *)
(* the message a later call has set, also when both passed the same text.  *)
(***************************************************************************)
StatusTimerSparesLaterMessage ==
    [][(TimerFired("status") /\ status # NoMessage /\ status' = NoMessage) =>
          \A j \in 1..Len(timers) : timers[j].kind = "status" => timers[j].due <= now']_vars

(***************************************************************************)
(* C28: the highlights a click has put on the map are taken off only by a  *)
(* later click or by the timer that click has set, 10 seconds after it;    *)
(* the timer of an earlier click never takes them off.                     *)
(***************************************************************************)
HighlightsRemovedByOwnTimer ==
    [][(nearbyMarkersLayer.defined /\ nearbyMarkersLayer.layers # <<>>
        /\ nearbyMarkersLayer' # nearbyMarkersLayer) =>
          \/ NearbyClicked
          \/ /\ TimerFired("clearNearby")
             /\ now' = nearbyMarkersLayer.layers[1].addedAt + 10000]_vars

(***************************************************************************)
(* Vocabulary of the load properties.                                      *)
(***************************************************************************)
\* no loadMapPoints call is waiting for its fetch
NoLoadPending == \A i \in 1..Len(timers) : timers[i].kind # "fetch"

\* this step is a loadMapPoints call going on after its fetch
LoadCompleted == renders' = renders + 1

\* the k-th marker is the marker of the k-th cluster
OneMarkerPerCluster(layers, cs) ==
    /\ Len(layers) = Len(cs)
    /\ \A k \in 1..Len(cs) :
          /\ layers[k].click.points = IF Len(cs[k].points) = 1
                                      THEN <<cs[k].points[1]>>
                                      ELSE cs[k].points
          /\ layers[k].badge = IF Len(cs[k].points) = 1 THEN 0 ELSE Len(cs[k].points)
          /\ layers[k].lat = CenterLat(cs[k])
          /\ layers[k].lng = CenterLng(cs[k])

(***************************************************************************)
(* C25: once the page-load call and the call of a Load Test Data click     *)
(* have both completed, allPoints and the markers hold the test data set   *)
(* of the click, the call that was started last (test points have ids from *)
(* 1000, the original points ids 1 to 20).                                 *)
(***************************************************************************)
LastStartedLoadWins ==
    (pc = "ready" /\ used.loads > 0 /\ NoLoadPending /\ renders = used.loads + 1) =>
        /\ \A k \in 1..Len(allPoints) : allPoints[k].id >= 1000
        /\ isLeafletAvailable =>
              \A k \in 1..Len(markersLayer.layers) :
                  markersLayer.layers[k].click.points[1].id >= 1000

MetricsDescribeLoadedData ==
    [][LoadCompleted =>
          /\ performanceMetrics'.pointCount = Len(allPoints')
          /\ performanceMetrics'.clusterCount =
                IF clusterCalls' = clusterCalls + 1 THEN Len(clusters') ELSE 0]_vars

(***************************************************************************)
(* Vocabulary of the button property.                                      *)
(***************************************************************************)
\* the loads the button has started that have not settled
ButtonLoadsPending ==
    {i \in 1..Len(timers) : timers[i].kind = "fetch" /\ timers[i].fromButton}

(***************************************************************************)
(* C29: the Load Test Data button is disabled, with the text 'Loading...', *)
(* exactly while a load it has started has not settled, so at most one     *)
(* such load is under way at any time; in every other state, after a load  *)
(* that ended in an error too, it is enabled with the text 'Load Test      *)
(* Data'.                                                                  *)
(***************************************************************************)
ButtonDisabledWhileLoading ==
    /\ Cardinality(ButtonLoadsPending) <= 1
    /\ loadTestBtn = IF ButtonLoadsPending # {} THEN DisabledButton ELSE EnabledButton

\* a second button load has ended in an error (the page-load call settles at
\* 500 ms, so a later error is the error of a button load), and the button is
\* free again
ButtonDisabledWhileLoadingWitness ==
    /\ used.loads = 2
    /\ ButtonLoadsPending = {}
    /\ status = Message("Error loading points", 0)
    /\ \E i \in 1..Len(timers) :
          /\ timers[i].kind = "status"
          /\ timers[i].message = status
          /\ timers[i].due > 500 + StatusClearDelay
    /\ loadTestBtn = EnabledButton

====
